---- MODULE Spec2Model ----
(***************************************************************************)
(* Model of evaporator_calc (src/evaporator_app.py), the calculation       *)
(* engine of the multi-effect evaporator design tool.                      *)
(*                                                                         *)
(* Python floats are modelled as exact rationals <<n, d>> in lowest terms  *)
(* with d > 0.  The pair <<0, 0>> is the non-finite result of a division   *)
(* by zero; it propagates through arithmetic, and the statements of the    *)
(* code that raise on it (a float division by zero, int() of a non-finite  *)
(* value) send the run to pc = "raised".                                   *)
(***************************************************************************)
EXTENDS Integers, Sequences, FiniteSets, TLC

(***************************************************************************)
(* Bounds of the explored inputs.                                          *)
(***************************************************************************)
MaxEffects == 4

MaxFeedFlow == 2

(***************************************************************************)
(* Exact rational arithmetic standing for the float arithmetic.            *)
(***************************************************************************)
Abs(x) == IF x < 0 THEN -x ELSE x

RECURSIVE GCD(_, _)
GCD(a, b) == IF b = 0 THEN a ELSE GCD(b, a % b)

NonFinite == <<0, 0>>

Q(n, d) ==
    IF d = 0 THEN NonFinite
    ELSE LET g == GCD(Abs(n), Abs(d))
             s == IF d < 0 THEN -1 ELSE 1
         IN  <<(s * n) \div g, (s * d) \div g>>

IsFinite(x) == x[2] # 0

\* Sums and comparisons go through the least common denominator, products
\* cancel crosswise first, so that intermediate values stay small.
QAdd(x, y) ==
    IF IsFinite(x) /\ IsFinite(y)
    THEN LET g == GCD(x[2], y[2])
         IN  Q(x[1] * (y[2] \div g) + y[1] * (x[2] \div g), (x[2] \div g) * y[2])
    ELSE NonFinite

QNeg(x) == <<-x[1], x[2]>>

QSub(x, y) == QAdd(x, QNeg(y))

QMul(x, y) ==
    IF IsFinite(x) /\ IsFinite(y)
    THEN LET a == Q(x[1], y[2])
             b == Q(y[1], x[2])
         IN  Q(a[1] * b[1], a[2] * b[2])
    ELSE NonFinite

QDiv(x, y) ==
    IF IsFinite(x) /\ IsFinite(y)
    THEN IF y[1] = 0 THEN NonFinite
         ELSE QMul(x, Q(y[2], y[1]))
    ELSE NonFinite

\* Comparisons with a non-finite operand are false, as with a NaN.
QLt(x, y) ==
    /\ IsFinite(x)
    /\ IsFinite(y)
    /\ LET g == GCD(x[2], y[2])
       IN  x[1] * (y[2] \div g) < y[1] * (x[2] \div g)

QLe(x, y) ==
    /\ IsFinite(x)
    /\ IsFinite(y)
    /\ LET g == GCD(x[2], y[2])
       IN  x[1] * (y[2] \div g) <= y[1] * (x[2] \div g)

QGt(x, y) == QLt(y, x)

QGe(x, y) == QLe(y, x)

QMax(x, y) == IF QGt(y, x) THEN y ELSE x

Zero == Q(0, 1)

\* int(x): truncation toward zero (of a finite x).
QInt(x) == IF x[1] >= 0 THEN x[1] \div x[2] ELSE -((-x[1]) \div x[2])

Pow10(k) == IF k = 0 THEN 1 ELSE IF k = 1 THEN 10 ELSE 100

\* round(x, nd): to nd decimals, halves to the even neighbour.
QRound(x, nd) ==
    IF ~IsFinite(x) THEN NonFinite
    ELSE LET p   == Pow10(nd)
             num == x[1] * p
             f   == num \div x[2]
             r2  == 2 * (num - f * x[2])
             up  == r2 > x[2] \/ (r2 = x[2] /\ f % 2 = 1)
         IN  Q(IF up THEN f + 1 ELSE f, p)

(***************************************************************************)
(* Saturation and boiling-point-elevation lookups.                         *)
(***************************************************************************)
\* np.interp(x, xp, fp): clamped at both ends, linear in between.
RECURSIVE interp_from(_, _, _, _)
interp_from(x, xp, fp, j) ==
    IF QLt(x, xp[j + 1])
    THEN QAdd(QMul(QDiv(QSub(fp[j + 1], fp[j]), QSub(xp[j + 1], xp[j])),
                   QSub(x, xp[j])),
              fp[j])
    ELSE interp_from(x, xp, fp, j + 1)

interp(x, xp, fp) ==
    IF ~IsFinite(x) THEN NonFinite
    ELSE IF QLe(x, xp[1]) THEN fp[1]
    ELSE IF QGe(x, xp[Len(xp)]) THEN fp[Len(fp)]
    ELSE interp_from(x, xp, fp, 1)

table_ps ==
    << Q(6, 10), Q(12, 10), Q(23, 10), Q(42, 10), Q(74, 10),
       Q(123, 10), Q(199, 10), Q(318, 10), Q(474, 10), Q(670, 10),
       Q(1013, 10), Q(200, 1), Q(300, 1), Q(400, 1), Q(500, 1) >>

table_ts ==
    << Q(0, 1), Q(10, 1), Q(20, 1), Q(30, 1), Q(40, 1),
       Q(50, 1), Q(60, 1), Q(70, 1), Q(80, 1), Q(90, 1),
       Q(100, 1), Q(120, 1), Q(134, 1), Q(144, 1), Q(151, 1) >>

water_bp_temp(pressure_kpa) == interp(pressure_kpa, table_ps, table_ts)

\* The Antoine pressure 10**(A - B/(temp_c + C)) * 0.133322 is transcendental:
\* it is kept as a term over its argument.  Its argument is a numpy float, so
\* no value of it raises.
water_bp_kpa(temp_c) == <<"p_kPa", temp_c>>

bpe_xs == << Q(0, 1), Q(1, 1), Q(5, 1), Q(10, 1), Q(15, 1) >>

bpe_ys == << Q(0, 1), Q(3, 10), Q(15, 10), Q(4, 1), Q(7, 1) >>

bpe_nacl(conc_pct) ==
    IF QLe(conc_pct, Zero) THEN Zero ELSE interp(conc_pct, bpe_xs, bpe_ys)

\* linspace with endpoint=False: the step divides by the number of samples.
linspace_no_endpoint(start, stop, num) ==
    LET step == QDiv(QSub(stop, start), Q(num + 1, 1))
    IN  [k \in 1..(num + 1) |-> QAdd(QMul(Q(k - 1, 1), step), start)]

\* np.linspace(start, stop, num + 1): start + k * step, the last sample set to stop.
linspace(start, stop, num) ==
    LET step == QDiv(QSub(stop, start), Q(num, 1))
    IN  [k \in 1..(num + 1) |->
            IF k = num + 1 THEN stop
            ELSE QAdd(QMul(Q(k - 1, 1), step), start)]

(***************************************************************************)
(* The arguments of evaporator_calc and its loop-carried locals.           *)
(***************************************************************************)
VARIABLES n_effects, feed_flow_m3h, feed_dm_pct, feed_tss_pct, feed_temp_c,
          prod_dm_pct, steam_press_barg,
          pc, i, dm_concs, bpes, eff_press_kpa, bp_temp_c, lmtds,
          stage_conc_flow, stage_conc_m3h, stage_dm, stage_vap_kgph,
          stage_vap_m3h, error_flag, error_msg, results, output

args == <<n_effects, feed_flow_m3h, feed_dm_pct, feed_tss_pct, feed_temp_c,
          prod_dm_pct, steam_press_barg>>

cascade == <<dm_concs, bpes, eff_press_kpa, bp_temp_c>>

balance == <<stage_conc_flow, stage_conc_m3h, stage_dm, stage_vap_kgph,
             stage_vap_m3h, error_flag, error_msg>>

vars == <<args, pc, i, cascade, lmtds, balance, results, output>>

None == <<"None">>

FeedFlowSet == {Q(f, 1) : f \in 0..MaxFeedFlow}

FeedDmSet == {Q(-5, 1), Q(0, 1), Q(2, 1), Q(5, 1)}

FeedTssSet == {Q(0, 1), Q(6, 1)}

FeedTempSet == {Q(25, 1)}

ProdDmSet == {Q(-5, 1), Q(0, 1), Q(4, 1), Q(15, 1), Q(20, 1)}

SteamPressSet == {Q(-1, 1), Q(-3, 4), Q(0, 1), Q(1, 1), Q(4, 1), Q(5, 1)}

(***************************************************************************)
(* Lines 32-43: the scalar single-assignment locals, as functions of the   *)
(* arguments.                                                              *)
(***************************************************************************)
\* Lines 33-34.
SteamPressKpa(press_barg) ==
    LET steam_press_abs == QAdd(press_barg, Q(1, 1))
    IN  QMul(steam_press_abs, Q(100, 1))

\* Line 35.
SteamTemp(press_barg) == water_bp_temp(SteamPressKpa(press_barg))

steam_temp_c == SteamTemp(steam_press_barg)

feed_flow_kgph == QMul(feed_flow_m3h, Q(1000, 1))

feed_dm_kgph == QMul(QDiv(feed_dm_pct, Q(100, 1)), feed_flow_kgph)

feed_tss_kgph == QMul(QDiv(feed_tss_pct, Q(100, 1)), feed_flow_kgph)

feed_tds_kgph == QSub(feed_dm_kgph, feed_tss_kgph)

\* Line 41 without its guard on prod_dm_pct.
prod_flow_kgph_unguarded == QDiv(feed_dm_kgph, QDiv(prod_dm_pct, Q(100, 1)))

prod_flow_kgph ==
    IF QGt(prod_dm_pct, Zero)
    THEN QDiv(feed_dm_kgph, QDiv(prod_dm_pct, Q(100, 1)))
    ELSE Zero

evap_kgph == QSub(feed_flow_kgph, prod_flow_kgph)

prod_flow_m3h == QDiv(prod_flow_kgph, Q(1000, 1))

\* Line 46: the elevation of each effect from the trajectory concs, where
\* concs[k + 1] is Python's dm_concs[k]; the result's index k is Python's k - 1.
BpeList(concs) ==
    [k \in 1..n_effects |->
        bpe_nacl(QMax(Q(1, 100), QSub(concs[k + 1], feed_tss_pct)))]

(***************************************************************************)
(* Init: the call, with its arguments drawn from the input sets.           *)
(***************************************************************************)
Init ==
    /\ n_effects \in 1..MaxEffects
    /\ feed_flow_m3h \in FeedFlowSet
    /\ feed_dm_pct \in FeedDmSet
    /\ feed_tss_pct \in FeedTssSet
    /\ feed_temp_c \in FeedTempSet
    /\ prod_dm_pct \in ProdDmSet
    /\ steam_press_barg \in SteamPressSet
    /\ pc = "preamble"
    /\ i = 0
    /\ dm_concs = <<>>
    /\ bpes = <<>>
    /\ eff_press_kpa = <<>>
    /\ bp_temp_c = <<>>
    /\ lmtds = <<>>
    /\ stage_conc_flow = <<>>
    /\ stage_conc_m3h = <<>>
    /\ stage_dm = <<>>
    /\ stage_vap_kgph = <<>>
    /\ stage_vap_m3h = <<>>
    /\ error_flag = FALSE
    /\ error_msg = <<>>
    /\ results = <<>>
    /\ output = <<>>

\* Lines 31-48.  The division of line 41 is a division of Python floats: by
\* zero it raises ZeroDivisionError.
Preamble ==
    /\ pc = "preamble"
    /\ IF ~IsFinite(prod_flow_kgph)
       THEN /\ pc' = "raised"
            /\ UNCHANGED <<i, cascade>>
       ELSE /\ pc' = "cascade"
            /\ i' = n_effects - 1
            /\ dm_concs' = linspace(feed_dm_pct, prod_dm_pct, n_effects)
            /\ bpes' = BpeList(dm_concs')
            /\ eff_press_kpa' = [k \in 1..n_effects |-> None]
            /\ bp_temp_c' = [k \in 1..n_effects |-> None]
    /\ UNCHANGED <<args, lmtds, balance, results, output>>

\* The step of line 54 with its difference reversed.
CascadeDt_reversed(steam_temp, terminal_bp, n) ==
    QDiv(QSub(terminal_bp, steam_temp), Q(n, 1))

\* Line 54, the uniform temperature step.
CascadeDt(steam_temp, terminal_bp, n) ==
    QDiv(QSub(steam_temp, terminal_bp), Q(n, 1))

\* Line 55 stepping down instead of up.
CascadeNext_down(bp_next, dt) == QSub(bp_next, dt)

\* Line 55.
CascadeNext(bp_next, dt) == QAdd(bp_next, dt)

\* Line 52.
TerminalBp(bpe_last) == QAdd(water_bp_temp(Q(25, 1)), bpe_last)

\* Lines 49-56, one iteration of the backward walk over i = n_effects-1 .. 0
\* (sequence index i + 1).
CascadeLoop ==
    /\ pc = "cascade"
    /\ IF i >= 0
       THEN /\ IF i = n_effects - 1
               THEN /\ eff_press_kpa' =
                          [eff_press_kpa EXCEPT ![i + 1] = <<"kPa", Q(25, 1)>>]
                    /\ bp_temp_c' =
                          [bp_temp_c EXCEPT ![i + 1] = TerminalBp(bpes[i + 1])]
               ELSE LET dt == CascadeDt(steam_temp_c,
                                        TerminalBp(bpes[n_effects]), n_effects)
                        bp == CascadeNext(bp_temp_c[i + 2], dt)
                    IN  /\ bp_temp_c' = [bp_temp_c EXCEPT ![i + 1] = bp]
                        /\ eff_press_kpa' =
                              [eff_press_kpa EXCEPT
                                  ![i + 1] = water_bp_kpa(QSub(bp, bpes[i + 1]))]
            /\ i' = i - 1
            /\ pc' = pc
            /\ UNCHANGED <<dm_concs, bpes>>
       ELSE /\ pc' = "lmtd"
            /\ i' = 0
            /\ UNCHANGED cascade
    /\ UNCHANGED <<args, lmtds, balance, results, output>>

\* Line 65 left out.
FloorDt_none(dT1) == dT1

\* Line 65, the floor of the driving temperature difference.
FloorDt(dT1) == IF QLe(dT1, Q(1, 10)) THEN Q(1, 10) ELSE dT1

\* Lines 59-64.
DrivingDt(k) ==
    LET hot  == IF k = 0 THEN steam_temp_c ELSE bp_temp_c[k]
        cold == bp_temp_c[k + 1]
    IN  QSub(hot, cold)

\* Lines 57-74, one iteration of the driving-difference loop; on its exit the
\* lists of the mass balance are set up.
LmtdLoop ==
    /\ pc = "lmtd"
    /\ IF i < n_effects
       THEN /\ lmtds' = Append(lmtds, QRound(FloorDt(DrivingDt(i)), 1))
            /\ i' = i + 1
            /\ pc' = pc
            /\ UNCHANGED balance
       ELSE /\ pc' = "balance"
            /\ i' = 0
            /\ stage_conc_flow' = <<feed_flow_kgph>>
            /\ stage_conc_m3h' = <<QDiv(feed_flow_kgph, Q(1000, 1))>>
            /\ stage_dm' = <<feed_dm_kgph>>
            /\ stage_vap_kgph' = <<>>
            /\ stage_vap_m3h' = <<>>
            /\ error_flag' = FALSE
            /\ error_msg' = <<>>
            /\ UNCHANGED lmtds
    /\ UNCHANGED <<args, cascade, results, output>>

Last(s) == s[Len(s)]

\* The f-string of line 82 with the loop index in place of i+1.
MsgNonPositive_index(effect) ==
    <<"Error: Dry matter in effect ", effect - 1, " is zero or negative.">>

\* Line 85 testing <= 0 instead of == 0.
ZeroDm_nonpositive(prev_dm_kgph) == QLe(prev_dm_kgph, Zero)

\* Line 91 multiplying by the fraction instead of dividing.
NextConc_times(prev_dm_kgph, this_dm_pct) == QMul(prev_dm_kgph, this_dm_pct)

\* The f-strings of lines 82 and 87, as their parts.
MsgNonPositive(effect) ==
    <<"Error: Dry matter in effect ", effect, " is zero or negative.">>

MsgZeroDm(effect) == <<"Error: Zero dry matter in effect ", effect, ".">>

\* Lines 80 and 85, the two failure tests of a stage.
NonPositiveDm(this_dm_pct) == QLe(this_dm_pct, Zero)

ZeroDm(prev_dm_kgph) == prev_dm_kgph = Zero

\* Line 91.
NextConc(prev_dm_kgph, this_dm_pct) == QDiv(prev_dm_kgph, this_dm_pct)

\* Line 94, the dry matter carried to the next stage.
CarriedDm(prev_dm_kgph) == prev_dm_kgph

\* Lines 76-97, one iteration of the mass balance.
MassBalanceLoop ==
    /\ pc = "balance"
    /\ IF i < n_effects
       THEN LET prev_conc_kgph == Last(stage_conc_flow)
                prev_dm_kgph   == Last(stage_dm)
                this_dm_pct    == QDiv(dm_concs[i + 2], Q(100, 1))
                failed1        == NonPositiveDm(this_dm_pct)
                failed2        == ~failed1 /\ ZeroDm(prev_dm_kgph)
                next_conc_kgph == IF failed1 \/ failed2 THEN Zero
                                  ELSE NextConc(prev_dm_kgph, this_dm_pct)
                vap_kgph       == IF failed1 \/ failed2 THEN Zero
                                  ELSE QSub(prev_conc_kgph, next_conc_kgph)
            IN  /\ error_flag' = (error_flag \/ failed1 \/ failed2)
                /\ error_msg' =
                      IF failed1 THEN MsgNonPositive(i + 1)
                      ELSE IF failed2 THEN MsgZeroDm(i + 1)
                      ELSE error_msg
                /\ stage_conc_flow' = Append(stage_conc_flow, next_conc_kgph)
                /\ stage_dm' = Append(stage_dm, CarriedDm(prev_dm_kgph))
                /\ stage_vap_kgph' = Append(stage_vap_kgph, vap_kgph)
                /\ stage_conc_m3h' =
                      Append(stage_conc_m3h, QDiv(next_conc_kgph, Q(1000, 1)))
                /\ stage_vap_m3h' =
                      Append(stage_vap_m3h, QDiv(vap_kgph, Q(1000, 1)))
                /\ i' = i + 1
                /\ pc' = pc
       ELSE /\ pc' = "results"
            /\ i' = 0
            /\ UNCHANGED balance
    /\ UNCHANGED <<args, cascade, lmtds, results, output>>

(***************************************************************************)
(* Lines 99-110: the energy estimate.                                      *)
(***************************************************************************)
latent_heat == 2300

lv_condenser == 2350

steam_econ ==
    IF QLt(prod_dm_pct, Q(12, 1)) THEN Q(23, 10)
    ELSE IF QLt(prod_dm_pct, Q(18, 1)) THEN Q(21, 10)
    ELSE Q(18, 10)

steam_needed_kgph ==
    IF QGt(steam_econ, Zero) THEN QDiv(evap_kgph, steam_econ) ELSE Zero

total_thermal_kW == QDiv(QMul(evap_kgph, Q(latent_heat, 1)), Q(3600, 1))

steam_power_kW == QDiv(QMul(steam_needed_kgph, Q(latent_heat, 1)), Q(3600, 1))

condenser_kW == QDiv(QMul(evap_kgph, Q(lv_condenser, 1)), Q(3600, 1))

\* round(eff_press_kpa[i], 1) of line 115; the rounded Antoine term stays a term.
RoundPressure(p) ==
    IF p[1] = "kPa" THEN <<"kPa", QRound(p[2], 1)>> ELSE <<"round1", p>>

\* Lines 113-123, the record of effect k + 1.
EffectRecord(k) ==
    [ Effect               |-> k + 1,
      AbsPressure_kPa      |-> RoundPressure(eff_press_kpa[k + 1]),
      BoilingPt_C          |-> QRound(bp_temp_c[k + 1], 1),
      BPE_C                |-> QRound(bpes[k + 1], 2),
      LMTD_C               |-> lmtds[k + 1],
      VapourFlow_kgph      |-> QInt(stage_vap_kgph[k + 1]),
      VapourFlow_m3h       |-> QRound(stage_vap_m3h[k + 1], 2),
      ConcentrateFlow_kgph |-> QInt(stage_conc_flow[k + 2]),
      ConcentrateFlow_m3h  |-> QRound(stage_conc_m3h[k + 2], 2) ]

\* What makes the statement of lines 113-123 raise for effect k + 1: an index
\* past the end of a list, a None left in the cascade, int() of a non-finite
\* flow.
RecordRaises(k) ==
    \/ k + 1 > Len(eff_press_kpa) \/ k + 1 > Len(bp_temp_c)
    \/ k + 1 > Len(lmtds) \/ k + 1 > Len(stage_vap_kgph)
    \/ k + 2 > Len(stage_conc_flow)
    \/ eff_press_kpa[k + 1] = None \/ bp_temp_c[k + 1] = None
    \/ ~IsFinite(stage_vap_kgph[k + 1])
    \/ ~IsFinite(stage_conc_flow[k + 2])

\* Lines 112-123, one iteration of the loop that builds the effect records.
ResultsLoop ==
    /\ pc = "results"
    /\ IF i < n_effects
       THEN IF RecordRaises(i)
            THEN /\ pc' = "raised"
                 /\ UNCHANGED <<i, results>>
            ELSE /\ results' = Append(results, EffectRecord(i))
                 /\ i' = i + 1
                 /\ pc' = pc
       ELSE /\ pc' = "return"
            /\ UNCHANGED <<i, results>>
    /\ UNCHANGED <<args, cascade, lmtds, balance, output>>

\* Line 128.  The division is one of Python floats: by zero it raises.
FeedTdsPct ==
    IF QGt(feed_flow_kgph, Zero)
    THEN QRound(QMul(QDiv(feed_tds_kgph, feed_flow_kgph), Q(100, 1)), 2)
    ELSE Zero

\* Line 139.
ErrorField == IF error_flag THEN error_msg ELSE <<>>

\* Lines 124-140, the report.
Report ==
    [ FeedFlow_m3h             |-> feed_flow_m3h,
      FeedDM_pct               |-> feed_dm_pct,
      FeedTSS_pct              |-> feed_tss_pct,
      FeedTDS_pct              |-> FeedTdsPct,
      ProductFlow_m3h          |-> QRound(prod_flow_m3h, 2),
      ProductDM_pct            |-> prod_dm_pct,
      WaterEvaporated_kgph     |-> QInt(evap_kgph),
      SteamNeeded_kgph         |-> QInt(steam_needed_kgph),
      SteamPower_kW            |-> QInt(steam_power_kW),
      SteamEconomy             |-> QRound(steam_econ, 2),
      Effects                  |-> results,
      TotalThermalLoad_kW      |-> QInt(total_thermal_kW),
      SteamTemp_C              |-> QRound(steam_temp_c, 1),
      FinalStageCondenser_kW   |-> QInt(condenser_kW),
      Error                    |-> ErrorField ]

ReportRaises ==
    \/ ~IsFinite(FeedTdsPct) \/ ~IsFinite(evap_kgph)
    \/ ~IsFinite(steam_needed_kgph) \/ ~IsFinite(steam_power_kW)
    \/ ~IsFinite(total_thermal_kW) \/ ~IsFinite(condenser_kW)

\* Lines 124-141.
Return ==
    /\ pc = "return"
    /\ IF ReportRaises
       THEN /\ pc' = "raised"
            /\ UNCHANGED output
       ELSE /\ pc' = "done"
            /\ output' = Report
    /\ UNCHANGED <<args, i, cascade, lmtds, balance, results>>

Next ==
    \/ Preamble
    \/ CascadeLoop
    \/ LmtdLoop
    \/ MassBalanceLoop
    \/ ResultsLoop
    \/ Return

Spec == Init /\ [][Next]_vars

(***************************************************************************)
(* Quantities the properties speak of.                                     *)
(***************************************************************************)
\* The uniform temperature step of the run.
Delta == CascadeDt(steam_temp_c, TerminalBp(bpes[n_effects]), n_effects)

\* The effects whose stage fails in the mass balance: a target dry-matter
\* percentage <= 0, or an incoming dry-matter mass of zero.
FailedEffects ==
    {k \in 1..Len(bpes) :
        \/ QLe(dm_concs[k + 1], Zero)
        \/ (k <= Len(stage_dm) /\ stage_dm[k] = Zero)}

MinOf(S) == CHOOSE m \in S : \A o \in S : m <= o

RECURSIVE QSum(_)
QSum(s) == IF s = <<>> THEN Zero ELSE QAdd(Head(s), QSum(Tail(s)))

PositiveTrajectory ==
    /\ Len(dm_concs) = n_effects + 1
    /\ \A k \in 1..(n_effects + 1) : QGt(dm_concs[k], Zero)

\* The backward walk of lines 49-55 from the terminal boiling temperature
\* down to effect k, with the step dt.
RECURSIVE BpWalk(_, _, _)
BpWalk(terminal_bp, dt, k) ==
    IF k >= n_effects THEN terminal_bp
    ELSE CascadeNext(BpWalk(terminal_bp, dt, k + 1), dt)

\* The boiling temperatures of effects 1..n_effects that the walk yields for
\* the heating-steam pressure press_barg, the other arguments as in the run.
BpTempsFor(press_barg) ==
    LET terminal_bp == TerminalBp(bpes[n_effects])
        dt == CascadeDt(SteamTemp(press_barg), terminal_bp, n_effects)
    IN  [k \in 1..n_effects |-> BpWalk(terminal_bp, dt, k)]

ScenarioB ==
    /\ prod_dm_pct = Zero
    /\ QGt(feed_dm_pct, Zero)
    /\ QGt(feed_flow_m3h, Zero)
    /\ n_effects >= 2

C2_Original ==
    (pc = "done" /\ ScenarioB) =>
        /\ output.Error =
              <<"Error: Dry matter in effect ", 1, " is zero or negative.">>
        /\ \A k \in 1..n_effects :
              /\ output.Effects[k].VapourFlow_kgph = 0
              /\ output.Effects[k].ConcentrateFlow_kgph = 0

(***************************************************************************)
(* C2 amended: in Scenario B the error names the last effect, n_effects;   *)
(* the reported vapour and concentrate flows of effect n_effects are zero; *)
(* no effect before it fails, and the unrounded vapour and concentrate     *)
(* flows of effects 1..n_effects-1 are not zero.                           *)
(***************************************************************************)
C2_ScenarioBLastEffect ==
    (pc = "done" /\ ScenarioB) =>
        /\ output.Error =
              <<"Error: Dry matter in effect ", n_effects, " is zero or negative.">>
        /\ output.Effects[n_effects].VapourFlow_kgph = 0
        /\ output.Effects[n_effects].ConcentrateFlow_kgph = 0
        /\ FailedEffects = {n_effects}
        /\ \A k \in 1..(n_effects - 1) :
              /\ stage_vap_kgph[k] # Zero
              /\ stage_conc_flow[k + 1] # Zero

C2_Witness ==
    /\ pc = "done"
    /\ ScenarioB
    /\ n_effects >= 3
    /\ output.Error # <<>>

(***************************************************************************)
(* C3: once effect i fails in the mass balance, the vapour flow and the    *)
(* concentrate flow of effect i and of every later effect are zero.        *)
(***************************************************************************)
C3_ZeroFromFailedStageOnward ==
    \A k \in FailedEffects :
        \A j \in k..n_effects :
            j <= Len(stage_vap_kgph) =>
                /\ stage_vap_kgph[j] = Zero
                /\ stage_conc_flow[j + 1] = Zero

(***************************************************************************)
(* C4: when the mass balance fails, the Error field of the report is the   *)
(* message of the first failure: it names the lowest-numbered failing      *)
(* effect.                                                                 *)
(***************************************************************************)
C4_FirstErrorReported ==
    (pc = "done" /\ FailedEffects # {}) =>
        output.Error[2] = MinOf(FailedEffects)

(***************************************************************************)
(* C5 as stated: for every input the evaporated water, feed mass flow      *)
(* minus product mass flow, equals the sum of the unrounded per-stage      *)
(* vapour flows.                                                           *)
(***************************************************************************)
C5_Original ==
    pc = "done" => evap_kgph = QSum(stage_vap_kgph)

(***************************************************************************)
(* C5 amended: for every input whose report has an empty Error field, the  *)
(* evaporated water equals the sum of the unrounded per-stage vapour flows.*)
(***************************************************************************)
C5_MassConservedWithoutError ==
    (pc = "done" /\ output.Error = <<>>) => evap_kgph = QSum(stage_vap_kgph)

C5_Witness ==
    /\ pc = "done"
    /\ output.Error = <<>>
    /\ n_effects >= 2
    /\ evap_kgph # Zero
    /\ evap_kgph = QSum(stage_vap_kgph)

(***************************************************************************)
(* C6: with a strictly positive dry-matter trajectory and feed flow > 0,   *)
(* after each effect k the concentrate flow leaving it times               *)
(* dm_concs[k]/100 equals the feed dry-matter mass flow, and the final     *)
(* concentrate flow equals the product mass flow.                          *)
(***************************************************************************)
C6_DryMatterConserved ==
    (PositiveTrajectory /\ QGt(feed_flow_m3h, Zero)) =>
        /\ \A k \in 1..n_effects :
              k + 1 <= Len(stage_conc_flow) =>
                  QMul(stage_conc_flow[k + 1], QDiv(dm_concs[k + 1], Q(100, 1)))
                      = feed_dm_kgph
        /\ pc = "done" => stage_conc_flow[n_effects + 1] = prod_flow_kgph

C6_Witness ==
    /\ pc = "done"
    /\ PositiveTrajectory
    /\ QGt(feed_flow_m3h, Zero)
    /\ n_effects >= 2
    /\ QGt(prod_dm_pct, feed_dm_pct)
    /\ stage_conc_flow[n_effects + 1] = prod_flow_kgph

\* The absolute pressure of press_barg lies within the saturation table.
InTable(press_barg) ==
    /\ QGe(SteamPressKpa(press_barg), table_ps[1])
    /\ QLe(SteamPressKpa(press_barg), table_ps[Len(table_ps)])

\* The pressures of the input set above the run's, both above -1 bar(g).
HigherPressures ==
    {p2 \in SteamPressSet :
        QGt(steam_press_barg, Q(-1, 1)) /\ QGt(p2, steam_press_barg)}

(***************************************************************************)
(* C7 as stated: for any two steam pressures p1 < p2 above -1 bar(g), the  *)
(* steam temperature for p2 is strictly greater than for p1, and so is the *)
(* boiling temperature of every effect 1..n_effects.                       *)
(***************************************************************************)
C7_Original ==
    pc = "lmtd" =>
        \A p2 \in HigherPressures :
            LET bp2 == BpTempsFor(p2)
            IN  /\ QGt(SteamTemp(p2), steam_temp_c)
                /\ \A k \in 1..n_effects : QGt(bp2[k], bp_temp_c[k])

(***************************************************************************)
(* C7 amended: for p1 < p2 above -1 bar(g) the steam temperature for p2 is *)
(* at least that for p1, and strictly greater when both absolute pressures *)
(* lie within the saturation table (0.6..500 kPa); the boiling temperature *)
(* of each effect 1..n_effects-1 is at least that for p1, and strictly     *)
(* greater exactly when the steam temperature is; the boiling temperature  *)
(* of effect n_effects does not depend on the steam pressure.              *)
(***************************************************************************)
C7_MonotoneInSteamPressure ==
    pc = "lmtd" =>
        \A p2 \in HigherPressures :
            LET t1  == steam_temp_c
                t2  == SteamTemp(p2)
                bp2 == BpTempsFor(p2)
            IN  /\ QGe(t2, t1)
                /\ (InTable(steam_press_barg) /\ InTable(p2)) => QGt(t2, t1)
                /\ \A k \in 1..(n_effects - 1) :
                      /\ QGe(bp2[k], bp_temp_c[k])
                      /\ QGt(t2, t1) <=> QGt(bp2[k], bp_temp_c[k])
                /\ bp2[n_effects] = bp_temp_c[n_effects]

C7_Witness ==
    /\ pc = "lmtd"
    /\ n_effects >= 3
    /\ steam_press_barg = Q(0, 1)
    /\ Q(5, 1) \in HigherPressures
    /\ QGt(BpTempsFor(Q(1, 1))[1], bp_temp_c[1])
    /\ SteamTemp(Q(5, 1)) = SteamTemp(Q(4, 1))

(***************************************************************************)
(* C8: whenever the temperature step Delta is positive, the boiling        *)
(* temperatures left by the backward walk strictly decrease with the       *)
(* effect index, and effect n_effects boils at water_bp_temp(25) plus its  *)
(* elevation.                                                              *)
(***************************************************************************)
C8_CascadeOrdering ==
    (pc = "lmtd" /\ QGt(Delta, Zero)) =>
        /\ \A a \in 1..n_effects : \A b \in 1..n_effects :
              a < b => QGt(bp_temp_c[a], bp_temp_c[b])
        /\ bp_temp_c[n_effects] = QAdd(water_bp_temp(Q(25, 1)), bpes[n_effects])

C8_Witness ==
    /\ pc = "lmtd"
    /\ QGt(Delta, Zero)
    /\ n_effects >= 3
    /\ QGt(bp_temp_c[1], bp_temp_c[n_effects])

(***************************************************************************)
(* C9: the driving temperature difference of every effect, before the      *)
(* floor and the rounding, is the same step Delta (for effect 1 too: the   *)
(* walk ends with bp_temp_c[1] = steam temperature - Delta); the reported  *)
(* value is that difference floored at 0.1 and rounded to one decimal, so  *)
(* never below 0.1.                                                        *)
(***************************************************************************)
C9_EqualTemperatureDrop ==
    pc \in {"balance", "results", "return", "done"} =>
        LET d        == Delta
            reported == IF QLe(d, Q(1, 10)) THEN Q(1, 10) ELSE QRound(d, 1)
        IN  /\ bp_temp_c[1] = QSub(steam_temp_c, d)
            /\ \A k \in 0..(n_effects - 1) :
                  /\ DrivingDt(k) = d
                  /\ QGe(lmtds[k + 1], Q(1, 10))
                  /\ lmtds[k + 1] = reported

C9_Witness ==
    /\ pc = "done"
    /\ n_effects >= 2
    /\ QLt(Delta, Zero)
    /\ \A k \in 1..n_effects : output.Effects[k].LMTD_C = Q(1, 10)

(***************************************************************************)
(* C10: the Error field of the report is non-empty exactly when the        *)
(* trajectory dry-matter percentage of some effect 1..n_effects is <= 0 or *)
(* the feed dry-matter mass flow is 0; with feed flow, feed DM and product *)
(* DM all > 0 it is empty, whatever the other arguments.                   *)
(***************************************************************************)
C10_ErrorExactlyOnFailure ==
    pc = "done" =>
        /\ output.Error # <<>> <=>
              \/ \E k \in 1..n_effects : QLe(dm_concs[k + 1], Zero)
              \/ feed_dm_kgph = Zero
        /\ (/\ QGt(feed_flow_m3h, Zero)
            /\ QGt(feed_dm_pct, Zero)
            /\ QGt(prod_dm_pct, Zero)) => output.Error = <<>>

C10_Witness ==
    /\ pc = "done"
    /\ output.Error = <<>>
    /\ QGt(feed_flow_m3h, Zero)
    /\ QLt(prod_dm_pct, feed_dm_pct)
    /\ QGt(feed_tss_pct, feed_dm_pct)
    /\ QLe(Delta, Zero)

====
